---------------------------- MODULE Spec2Model ----------------------------
(***************************************************************************)
(* Payment rate limiter (utils/rate_limiting.py) and payment retry service *)
(* (utils/payment_retry.py) of FlashStudio, as state machines.             *)
(*                                                                         *)
(* Time is the wall clock in seconds (time.time(), datetime.utcnow()); it  *)
(* advances in steps of TickSeconds.  Python's None and Optional values    *)
(* are sets with at most one element: None is {} and a value v is {v}.     *)
(* Python strings that the code inspects (client ids, stored counter       *)
(* values) are sequences of one-character strings.                         *)
(***************************************************************************)
EXTENDS Integers, Sequences, FiniteSets, TLC

\* ------------------------------------------------------------- bounds
\* Granularity of the clock: half of the five-minute window.
TickSeconds == 150
\* The clock stops after this many ticks in the rate limiter specifications.
MaxTicks == 13
\* The clock stops after this many ticks in the retry service specification.
MaxRetryTicks == 2
\* No more attempts than this are reported for one payment intent.
MaxAttempts == 6
\* The number of requests in flight at once in the concurrent specification.
NThreads == 3
\* The payment intents the gateway creates.
MaxIntents == 2

\* ------------------------------------------------------------ helpers
None == {}
Some(v) == {v}
Val(o) == CHOOSE v \in o : TRUE

Max(a, b) == IF a >= b THEN a ELSE b

\* A dict without one key (del d[key]).
Remove(d, key) == [k \in (DOMAIN d) \ {key} |-> d[k]]
\* A dict with one key set (d[key] = v).
Put(d, key, v) == [k \in (DOMAIN d) \cup {key} |-> IF k = key THEN v ELSE d[k]]
EmptyDict == [k \in {} |-> {}]

\* str(n) for n >= 0: the decimal digits of n.
Digits == <<"0", "1", "2", "3", "4", "5", "6", "7", "8", "9">>
RECURSIVE str(_)
str(n) == IF n < 10 THEN <<Digits[n + 1]>>
          ELSE Append(str(n \div 10), Digits[(n % 10) + 1])
\* int(s) for a string of decimal digits.
DigitValue(ch) == (CHOOSE i \in 1..10 : Digits[i] = ch) - 1
RECURSIVE int(_)
int(s) == IF Len(s) = 0 THEN 0
          ELSE 10 * int(SubSeq(s, 1, Len(s) - 1)) + DigitValue(s[Len(s)])

\* sub in s, for Python strings.
Contains(s, sub) ==
    \E i \in 1..(Len(s) - Len(sub) + 1) : SubSeq(s, i, i + Len(sub) - 1) = sub
\* s.lower(), for the letters that occur in the client ids of the model.
LowerChar(ch) ==
    CASE ch = "A" -> "a" [] ch = "D" -> "d" [] ch = "M" -> "m"
      [] ch = "I" -> "i" [] ch = "N" -> "n" [] OTHER -> ch
lower(s) == [i \in 1..Len(s) |-> LowerChar(s[i])]

\* ------------------------------------------------- rate limiter: data
\* PaymentRateLimiter.limits
limits ==
    [payment_intent  |-> [requests |-> 10,  window |-> 300, block_duration |-> 900],
     payment_confirm |-> [requests |-> 5,   window |-> 300, block_duration |-> 1800],
     webhook         |-> [requests |-> 100, window |-> 60,  block_duration |-> 300],
     analytics       |-> [requests |-> 50,  window |-> 300, block_duration |-> 600]]

\* The endpoint types the routes pass to the rate_limit decorator.
EndpointTypes == {"payment_intent", "payment_confirm", "webhook", "analytics"}

\* self.limits.get(endpoint_type, self.limits['payment_intent'])
Config(endpoint_type) ==
    IF endpoint_type \in DOMAIN limits THEN limits[endpoint_type]
    ELSE limits["payment_intent"]

\* Client ids as _get_client_id builds them: "9.9.9.9", "127.0.0.1",
\* "9.9|user:Admin" and "localhost".
ClientExternal == <<"9", ".", "9", ".", "9", ".", "9">>
ClientLoopback == <<"1", "2", "7", ".", "0", ".", "0", ".", "1">>
ClientAdmin == <<"9", ".", "9", "|", "u", "s", "e", "r", ":", "A", "d", "m", "i", "n">>
ClientLocalhost == <<"l", "o", "c", "a", "l", "h", "o", "s", "t">>
\* The clients under load, and the clients with a whitelist marker.
Clients == {ClientExternal, ClientLoopback}
BypassClients == {ClientLoopback, ClientLocalhost, ClientAdmin}

Str127 == <<"1", "2", "7", ".", "0", ".", "0", ".", "1">>
StrLocalhost == <<"l", "o", "c", "a", "l", "h", "o", "s", "t">>
StrAdmin == <<"a", "d", "m", "i", "n">>

\* PaymentRateLimiter._is_whitelisted
_is_whitelisted_mut_case(client_id) ==
    IF Contains(client_id, Str127) \/ Contains(client_id, StrLocalhost) THEN TRUE
    ELSE IF Contains(client_id, StrAdmin) THEN TRUE
    ELSE FALSE
_is_whitelisted(client_id) ==
    IF Contains(client_id, Str127) \/ Contains(client_id, StrLocalhost) THEN TRUE
    ELSE IF Contains(lower(client_id), StrAdmin) THEN TRUE
    ELSE FALSE

\* f"rate_limit:block:{endpoint_type}:{client_id}" and
\* f"rate_limit:count:{endpoint_type}:{client_id}"
block_key(endpoint_type, client_id) == <<"rate_limit", "block", endpoint_type, client_id>>
count_key(endpoint_type, client_id) == <<"rate_limit", "count", endpoint_type, client_id>>

\* ------------------------------------------------ retry service: data
\* PaymentFailureReason (the values of the enum)
PaymentFailureReason ==
    {"card_declined", "insufficient_funds", "expired_card", "incorrect_cvc",
     "processing_error", "authentication_required", "network_error",
     "rate_limited", "unknown"}

\* PaymentRetryService.retry_configs (the message texts are left out)
retry_configs ==
    [card_declined |->
        [strategy |-> "no_retry", max_attempts |-> 0, notify_customer |-> TRUE],
     insufficient_funds |->
        [strategy |-> "user_action", max_attempts |-> 0, notify_customer |-> TRUE],
     expired_card |->
        [strategy |-> "no_retry", max_attempts |-> 0, notify_customer |-> TRUE],
     incorrect_cvc |->
        [strategy |-> "no_retry", max_attempts |-> 0, notify_customer |-> TRUE],
     processing_error |->
        [strategy |-> "exponential", max_attempts |-> 3, notify_customer |-> FALSE],
     network_error |->
        [strategy |-> "exponential", max_attempts |-> 5, notify_customer |-> FALSE],
     authentication_required |->
        [strategy |-> "user_action", max_attempts |-> 0, notify_customer |-> TRUE],
     rate_limited |->
        [strategy |-> "linear", max_attempts |-> 3, notify_customer |-> FALSE],
     unknown |->
        [strategy |-> "exponential", max_attempts |-> 2, notify_customer |-> TRUE]]

\* RetryStrategy (the values of the enum)
RetryStrategy == {"immediate", "linear", "exponential", "no_retry", "user_action"}

\* config['strategy'] in [RetryStrategy.NO_RETRY, RetryStrategy.USER_ACTION_REQUIRED]
NoRetryStrategies == {"no_retry", "user_action"}

\* getattr(obj, name, default): obj is a record of the attributes it has.
getattr(obj, name, default) == IF name \in DOMAIN obj THEN obj[name] ELSE default

\* Gateway error objects, one for each category and one that matches no rule.
ErrInsufficientFunds ==
    [code |-> "card_declined", type |-> "card_error", decline_code |-> "insufficient_funds"]
ErrExpiredCard ==
    [code |-> "card_declined", type |-> "card_error", decline_code |-> "expired_card"]
ErrIncorrectCvc ==
    [code |-> "card_declined", type |-> "card_error", decline_code |-> "invalid_cvc"]
ErrCardDeclined ==
    [code |-> "generic_decline", type |-> "card_error", decline_code |-> "do_not_honor"]
ErrAuthentication == [code |-> "authentication_required", type |-> "card_error"]
ErrProcessing == [code |-> "processing_error", type |-> "api_error"]
ErrRateLimit == [code |-> "rate_limit", type |-> "rate_limit_error"]
ErrNetwork == [type |-> "api_connection_error"]
ErrUnmapped == [code |-> "bogus", type |-> "invalid_request_error"]
\* stripe_error as the callers pass it: an error object or None.
FirstErrors ==
    {Some(e) : e \in {ErrInsufficientFunds, ErrExpiredCard, ErrIncorrectCvc,
                      ErrCardDeclined, ErrAuthentication, ErrProcessing,
                      ErrRateLimit, ErrNetwork, ErrUnmapped}} \cup {None}
\* The errors reported for a payment intent that already failed once.
LaterErrors == {Some(ErrCardDeclined), Some(ErrNetwork)}

\* PaymentRetryService.classify_failure_reason
classify_failure_reason_mut_else(stripe_error) ==
    IF stripe_error = None THEN "unknown"
    ELSE
    LET e == Val(stripe_error)
        error_code == getattr(e, "code", "")
        error_type == getattr(e, "type", "")
        decline_code == getattr(e, "decline_code", "")
    IN  IF error_code \in {"card_declined", "generic_decline"}
        THEN IF decline_code = "insufficient_funds" THEN "insufficient_funds"
             ELSE IF decline_code = "expired_card" THEN "expired_card"
             ELSE IF decline_code \in {"incorrect_cvc", "invalid_cvc"} THEN "incorrect_cvc"
             ELSE "card_declined"
        ELSE IF error_code = "authentication_required" THEN "authentication_required"
        ELSE IF error_code = "processing_error" THEN "processing_error"
        ELSE IF error_type = "rate_limit_error" THEN "rate_limited"
        ELSE IF error_type \in {"api_connection_error", "api_error"} THEN "network_error"
        ELSE "network_error"
classify_failure_reason_mut_type_first(stripe_error) ==
    IF stripe_error = None THEN "unknown"
    ELSE
    LET e == Val(stripe_error)
        error_code == getattr(e, "code", "")
        error_type == getattr(e, "type", "")
        decline_code == getattr(e, "decline_code", "")
    IN  IF error_type = "rate_limit_error" THEN "rate_limited"
        ELSE IF error_type \in {"api_connection_error", "api_error"} THEN "network_error"
        ELSE IF error_code \in {"card_declined", "generic_decline"}
        THEN IF decline_code = "insufficient_funds" THEN "insufficient_funds"
             ELSE IF decline_code = "expired_card" THEN "expired_card"
             ELSE IF decline_code \in {"incorrect_cvc", "invalid_cvc"} THEN "incorrect_cvc"
             ELSE "card_declined"
        ELSE IF error_code = "authentication_required" THEN "authentication_required"
        ELSE IF error_code = "processing_error" THEN "processing_error"
        ELSE "unknown"
classify_failure_reason(stripe_error) ==
    IF stripe_error = None THEN "unknown"
    ELSE
    LET e == Val(stripe_error)
        error_code == getattr(e, "code", "")
        error_type == getattr(e, "type", "")
        decline_code == getattr(e, "decline_code", "")
    IN  IF error_code \in {"card_declined", "generic_decline"}
        THEN IF decline_code = "insufficient_funds" THEN "insufficient_funds"
             ELSE IF decline_code = "expired_card" THEN "expired_card"
             ELSE IF decline_code \in {"incorrect_cvc", "invalid_cvc"} THEN "incorrect_cvc"
             ELSE "card_declined"
        ELSE IF error_code = "authentication_required" THEN "authentication_required"
        ELSE IF error_code = "processing_error" THEN "processing_error"
        ELSE IF error_type = "rate_limit_error" THEN "rate_limited"
        ELSE IF error_type \in {"api_connection_error", "api_error"} THEN "network_error"
        ELSE "unknown"

\* PaymentRetryService.calculate_retry_delay
calculate_retry_delay_mut_double(strategy, attempt_number) ==
    IF strategy = "immediate" THEN 0
    ELSE IF strategy = "linear" THEN attempt_number * 60
    ELSE IF strategy = "exponential" THEN (2 ^ attempt_number) * 60
    ELSE 0
calculate_retry_delay(strategy, attempt_number) ==
    IF strategy = "immediate" THEN 0
    ELSE IF strategy = "linear" THEN attempt_number * 60
    ELSE IF strategy = "exponential" THEN (2 ^ (attempt_number - 1)) * 60
    ELSE 0

\* PaymentRetryService.should_retry_payment
should_retry_payment_mut_le(failure_reason, current_attempts) ==
    IF failure_reason \notin DOMAIN retry_configs THEN FALSE
    ELSE IF retry_configs[failure_reason].strategy \in NoRetryStrategies THEN FALSE
    ELSE current_attempts <= retry_configs[failure_reason].max_attempts
should_retry_payment_mut_ne(failure_reason, current_attempts) ==
    IF failure_reason \notin DOMAIN retry_configs THEN FALSE
    ELSE IF retry_configs[failure_reason].strategy \in NoRetryStrategies THEN FALSE
    ELSE current_attempts # retry_configs[failure_reason].max_attempts
should_retry_payment(failure_reason, current_attempts) ==
    IF failure_reason \notin DOMAIN retry_configs THEN FALSE
    ELSE IF retry_configs[failure_reason].strategy \in NoRetryStrategies THEN FALSE
    ELSE current_attempts < retry_configs[failure_reason].max_attempts

\* next_retry_time in create_retry_context: None, or now + the first delay.
first_retry_time_mut_always(config, t) ==
    Some(t + calculate_retry_delay(config.strategy, 1))
first_retry_time(config, t) ==
    IF config.strategy \notin NoRetryStrategies
    THEN Some(t + calculate_retry_delay(config.strategy, 1))
    ELSE None

\* PaymentRetryService.create_retry_context: the context it builds and stores.
\* Of RetryAttempt and PaymentRetryContext the fields timestamp,
\* next_retry_time and last_retry_at, which nothing reads, are not kept.
create_retry_context(contexts, order_id, payment_intent_id, stripe_error, t) ==
    LET failure_reason == classify_failure_reason(stripe_error)
        config == IF failure_reason \in DOMAIN retry_configs
                  THEN retry_configs[failure_reason] ELSE retry_configs["unknown"]
        initial_attempt ==
            [attempt_number |-> 1,
             failure_reason |-> failure_reason,
             stripe_error_code |-> IF stripe_error = None THEN "unknown"
                                   ELSE getattr(Val(stripe_error), "code", "unknown"),
             retry_after_seconds |-> 0,
             success |-> FALSE]
        context ==
            [order_id |-> order_id,
             payment_intent_id |-> payment_intent_id,
             original_failure_reason |-> failure_reason,
             retry_strategy |-> config.strategy,
             max_attempts |-> config.max_attempts,
             current_attempts |-> 1,
             attempts |-> <<initial_attempt>>,
             created_at |-> t,
             next_retry_at |-> first_retry_time(config, t),
             final_failure |-> FALSE,
             customer_notified |-> FALSE]
    IN  Put(contexts, payment_intent_id, context)

\* add_retry_attempt after "context.current_attempts += 1": the decision to
\* retry, written to next_retry_at and final_failure, and retry_delay.
retry_decision(context, success, t) ==
    LET retry == ~success /\ should_retry_payment(context.original_failure_reason,
                                                  context.current_attempts)
        retry_delay == IF retry
                       THEN calculate_retry_delay(context.retry_strategy,
                                                  context.current_attempts)
                       ELSE 0
    IN  [context |-> [context EXCEPT
                         !.next_retry_at = IF retry THEN Some(t + retry_delay) ELSE None,
                         !.final_failure = IF retry THEN @ ELSE ~success],
         retry_delay |-> retry_delay]

\* add_retry_attempt: the RetryAttempt it appends.
retry_attempt_mut_number(context, stripe_error, success, retry_delay) ==
    [attempt_number |-> context.current_attempts + 1,
     failure_reason |-> IF stripe_error # None
                        THEN classify_failure_reason(stripe_error)
                        ELSE "success",
     stripe_error_code |-> IF stripe_error = None THEN "none"
                           ELSE getattr(Val(stripe_error), "code", "none"),
     retry_after_seconds |-> retry_delay,
     success |-> success]
retry_attempt(context, stripe_error, success, retry_delay) ==
    [attempt_number |-> context.current_attempts,
     failure_reason |-> IF stripe_error # None
                        THEN classify_failure_reason(stripe_error)
                        ELSE "success",
     stripe_error_code |-> IF stripe_error = None THEN "none"
                           ELSE getattr(Val(stripe_error), "code", "none"),
     retry_after_seconds |-> retry_delay,
     success |-> success]

\* PaymentRetryService.add_retry_attempt, run without interruption: the
\* contexts afterwards and the returned flag.
add_retry_attempt_mut_new_reason(contexts, payment_intent_id, stripe_error, success, t) ==
    IF payment_intent_id \notin DOMAIN contexts
    THEN [contexts |-> contexts, ret |-> FALSE]
    ELSE
    LET counted == [contexts[payment_intent_id] EXCEPT !.current_attempts = @ + 1]
        reported_as == [counted EXCEPT !.original_failure_reason =
                            IF stripe_error # None
                            THEN classify_failure_reason(stripe_error) ELSE @]
        d == retry_decision(reported_as, success, t)
        decided == [d.context EXCEPT
                        !.original_failure_reason = counted.original_failure_reason]
        attempt == retry_attempt(decided, stripe_error, success, d.retry_delay)
        updated == [decided EXCEPT !.attempts = Append(@, attempt)]
    IN  [contexts |-> Put(contexts, payment_intent_id, updated), ret |-> TRUE]
add_retry_attempt(contexts, payment_intent_id, stripe_error, success, t) ==
    IF payment_intent_id \notin DOMAIN contexts
    THEN [contexts |-> contexts, ret |-> FALSE]
    ELSE
    LET counted == [contexts[payment_intent_id] EXCEPT !.current_attempts = @ + 1]
        d == retry_decision(counted, success, t)
        attempt == retry_attempt(d.context, stripe_error, success, d.retry_delay)
        updated == [d.context EXCEPT !.attempts = Append(@, attempt)]
    IN  [contexts |-> Put(contexts, payment_intent_id, updated), ret |-> TRUE]

\* PaymentRetryService.get_retry_context
get_retry_context(contexts, payment_intent_id) ==
    IF payment_intent_id \in DOMAIN contexts THEN Some(contexts[payment_intent_id])
    ELSE None

\* PaymentRetryService.get_pending_retries: the ids of the contexts returned.
get_pending_retries_mut_notdue(contexts, t) ==
    {p \in DOMAIN contexts :
        /\ contexts[p].next_retry_at # None
        /\ ~contexts[p].final_failure}
get_pending_retries(contexts, t) ==
    {p \in DOMAIN contexts :
        /\ contexts[p].next_retry_at # None
        /\ Val(contexts[p].next_retry_at) <= t
        /\ ~contexts[p].final_failure}

\* The orders Order.query.get finds, each with its user; payment intents.
OrdersFound == {1}
OrderIds == {1, 2}
PaymentIntents == {"pi_1"}

\* PaymentRetryService.send_customer_notification on the context of
\* payment_intent_id: the contexts afterwards, the returned flag and whether
\* a notification went out.
send_customer_notification(contexts, order_id, failure_reason, payment_intent_id) ==
    IF order_id \notin OrdersFound
    THEN [contexts |-> contexts, ret |-> FALSE, sent |-> FALSE]
    ELSE IF failure_reason \notin DOMAIN retry_configs
            \/ ~retry_configs[failure_reason].notify_customer
    THEN [contexts |-> contexts, ret |-> TRUE, sent |-> FALSE]
    ELSE [contexts |-> [contexts EXCEPT ![payment_intent_id].customer_notified = TRUE],
          ret |-> TRUE, sent |-> TRUE]

VARIABLES
    now,            \* the wall clock, in seconds
    route,          \* the endpoint type of the decorated route under load
    store,          \* RateLimitStore.store: key -> [value, expires]
    redis_client,   \* RateLimitStore.redis_client is not None
    redis_db,       \* what the Redis server holds: key -> [value, expires]
    result,         \* what the last check_rate_limit call returned, if the
                    \* last step was such a call
    blocked_until,  \* history: the expiry of the last block that was set
    seq,            \* history: how far the client is in its first window
    retry_contexts, \* PaymentRetryService.retry_contexts: id -> context
    ret,            \* what the last call into the retry service returned, if
                    \* the last step was such a call
    reported,       \* history: per payment intent, the failures and successes
                    \* reported for its context and the notifications sent
    threads,        \* concurrent requests: per worker thread, where it is in
                    \* check_rate_limit and its local variables
    count0,         \* history: the window counter when the threads started
    call,           \* the last call of one of the service's pure methods:
                    \* its arguments and the value it returned
    handlers,       \* concurrent gateway reports: per worker thread, where
                    \* it is in handle_payment_failure / handle_payment_success
                    \* and its local variables
    heap,           \* the PaymentRetryContext objects those threads created
    retry_index,    \* retry_contexts while they run: id -> object on the heap
    orders,         \* the Order rows: id -> [user_id, status,
                    \* stripe_payment_intent, payment_completed_at]
    stripe_intents, \* the gateway's payment intents: id -> status
    stripe_configured, \* StripeService.is_configured()
    session,        \* the Flask session: [user_id, cart]
    request,        \* the last request to a decorated payment route, if
                    \* the last step was one: [route, client_id, data,
                    \* gateway_ok]
    response,       \* the response to it: [status_code, body, headers]
    invoked         \* history: how often the request's handler was called

rlvars == <<now, route, store, redis_client, redis_db, result, blocked_until, seq>>
retryvars == <<retry_contexts, ret, reported>>
concvars == <<threads, count0>>
fnvars == <<call>>
handlervars == <<handlers, heap, retry_index>>
paymentvars == <<orders, stripe_intents, stripe_configured, session, request,
                 response, invoked>>
vars == <<rlvars, retryvars, concvars, fnvars, handlervars, paymentvars>>

\* The three fields of a RateLimitStore and its server, as one value.
StoreState == [store |-> store, redis_client |-> redis_client, redis_db |-> redis_db]

\* except Exception: logger.warning(...); self.redis_client = None
\* The server's contents are out of the process's reach from then on.
Demote_mut_keep(st) == st
Demote(st) == [st EXCEPT !.redis_client = FALSE, !.redis_db = EmptyDict]

\* A key the Redis server still holds at time t.
RedisHas(db, key, t) == key \in DOMAIN db /\ db[key].expires > t

\* In-memory part of RateLimitStore.get
memory_get_mut_closed(st, key, t) ==
    IF key \in DOMAIN st.store /\ st.store[key].expires > t
    THEN [st |-> st, ret |-> Some(st.store[key].value)]
    ELSE IF key \in DOMAIN st.store
    THEN [st |-> [st EXCEPT !.store = Remove(st.store, key)], ret |-> None]
    ELSE [st |-> st, ret |-> Some(str(1))]
memory_get_mut_touch(st, key, t) ==
    IF key \in DOMAIN st.store /\ st.store[key].expires > t
    THEN [st |-> [st EXCEPT !.store[key].expires = @ + 1],
          ret |-> Some(st.store[key].value)]
    ELSE IF key \in DOMAIN st.store
    THEN [st |-> [st EXCEPT !.store = Remove(st.store, key)], ret |-> None]
    ELSE [st |-> st, ret |-> None]
memory_get(st, key, t) ==
    IF key \in DOMAIN st.store /\ st.store[key].expires > t
    THEN [st |-> st, ret |-> Some(st.store[key].value)]
    ELSE IF key \in DOMAIN st.store
    THEN [st |-> [st EXCEPT !.store = Remove(st.store, key)], ret |-> None]
    ELSE [st |-> st, ret |-> None]

\* RateLimitStore.get; fail: the Redis call raises.
get(st, key, t, fail) ==
    IF st.redis_client /\ ~fail
    THEN [st |-> st,
          ret |-> IF RedisHas(st.redis_db, key, t) THEN Some(st.redis_db[key].value) ELSE None]
    ELSE memory_get(IF st.redis_client THEN Demote(st) ELSE st, key, t)

\* RateLimitStore.set
set(st, key, value, ttl, t, fail) ==
    IF st.redis_client /\ ~fail
    THEN [st EXCEPT !.redis_db = Put(st.redis_db, key, [value |-> value, expires |-> t + ttl])]
    ELSE LET st1 == IF st.redis_client THEN Demote(st) ELSE st
         IN [st1 EXCEPT !.store = Put(st1.store, key, [value |-> value, expires |-> t + ttl])]

\* d.get(key) for a dict d.
dict_get(d, key) == IF key \in DOMAIN d THEN Some(d[key]) ELSE None

\* In-memory part of RateLimitStore.incr, from the item it read: the item it
\* writes and the count it returns.
incr_item_mut_sliding(item, ttl, t) ==
    IF item = None \/ Val(item).expires <= t
    THEN [item |-> [value |-> str(1), expires |-> t + ttl], ret |-> 1]
    ELSE LET count == int(Val(item).value) + 1
         IN [item |-> [value |-> str(count), expires |-> t + ttl],
             ret |-> count]
incr_item(item, ttl, t) ==
    IF item = None \/ Val(item).expires <= t
    THEN [item |-> [value |-> str(1), expires |-> t + ttl], ret |-> 1]
    ELSE LET count == int(Val(item).value) + 1
         IN [item |-> [value |-> str(count), expires |-> Val(item).expires],
             ret |-> count]

\* In-memory part of RateLimitStore.incr, run without interruption.
memory_incr(st, key, ttl, t) ==
    LET w == incr_item(dict_get(st.store, key), ttl, t)
    IN  [st |-> [st EXCEPT !.store = Put(st.store, key, w.item)], ret |-> w.ret]

\* RateLimitStore.incr: INCR and EXPIRE in one pipeline, or the memory path.
incr(st, key, ttl, t, fail) ==
    IF st.redis_client /\ ~fail
    THEN LET count == IF RedisHas(st.redis_db, key, t)
                      THEN int(st.redis_db[key].value) + 1 ELSE 1
         IN [st |-> [st EXCEPT !.redis_db =
                        Put(st.redis_db, key, [value |-> str(count), expires |-> t + ttl])],
             ret |-> count]
    ELSE memory_incr(IF st.redis_client THEN Demote(st) ELSE st, key, ttl, t)

\* RateLimitStore.cleanup_expired
cleanup_expired_mut_all(st, t) ==
    IF st.redis_client THEN st ELSE [st EXCEPT !.store = EmptyDict]
cleanup_expired(st, t) ==
    IF st.redis_client THEN st
    ELSE [st EXCEPT !.store =
             [k \in {key \in DOMAIN st.store : ~(st.store[key].expires <= t)} |-> st.store[k]]]

\* if current_count > config['requests']
limit_exceeded_mut_ge(current_count, config) == current_count >= config.requests
limit_exceeded(current_count, config) == current_count > config.requests

\* if self.store.get(block_key): a non-empty string is true.
Truthy(o) == o # None /\ Len(Val(o)) > 0

\* PaymentRateLimiter.check_rate_limit for one client id at time t; f1, f2, f3:
\* the Redis call of get, incr, set raises.  Gives the store afterwards, the
\* returned pair, whether a block was set, and for each store operation the
\* call made (get, incr, set, in this order) whether it went to Redis.
check_rate_limit(st, endpoint_type, client_id, t, f1, f2, f3) ==
    IF _is_whitelisted(client_id)
    THEN [st |-> st, block_set |-> FALSE, contacted |-> <<>>,
          is_allowed |-> TRUE,
          info |-> [whitelisted |-> TRUE, client_id |-> client_id]]
    ELSE
    LET config == Config(endpoint_type)
        g == get(st, block_key(endpoint_type, client_id), t, f1)
    IN  IF Truthy(g.ret)
        THEN [st |-> g.st, block_set |-> FALSE, contacted |-> <<st.redis_client>>,
              is_allowed |-> FALSE,
              info |-> [blocked |-> TRUE, client_id |-> client_id,
                        endpoint_type |-> endpoint_type,
                        block_expires_in |-> config.block_duration]]
        ELSE
        LET i == incr(g.st, count_key(endpoint_type, client_id), config.window, t, f2)
            current_count == i.ret
            remaining == Max(0, config.requests - current_count)
            reset_time == t + config.window
        IN  IF limit_exceeded(current_count, config)
            THEN [st |-> set(i.st, block_key(endpoint_type, client_id), str(1),
                             config.block_duration, t, f3),
                  block_set |-> TRUE,
                  contacted |-> <<st.redis_client, g.st.redis_client, i.st.redis_client>>,
                  is_allowed |-> FALSE,
                  info |-> [limit_exceeded |-> TRUE, client_id |-> client_id,
                            endpoint_type |-> endpoint_type,
                            requests_made |-> current_count,
                            limit |-> config.requests,
                            window_seconds |-> config.window,
                            blocked_until |-> t + config.block_duration,
                            reset_time |-> reset_time]]
            ELSE [st |-> i.st, block_set |-> FALSE,
                  contacted |-> <<st.redis_client, g.st.redis_client>>,
                  is_allowed |-> TRUE,
                  info |-> [allowed |-> TRUE, client_id |-> client_id,
                            endpoint_type |-> endpoint_type,
                            requests_made |-> current_count,
                            limit |-> config.requests,
                            remaining |-> remaining,
                            reset_time |-> reset_time,
                            window_seconds |-> config.window]]

\* get_rate_limit_headers: the headers of a response, name -> value.
get_rate_limit_headers(limit_info) ==
    LET has(k) == k \in DOMAIN limit_info /\ limit_info[k] = TRUE
        field(k, default) == IF k \in DOMAIN limit_info THEN limit_info[k] ELSE default
        h1 == IF has("allowed") \/ has("limit_exceeded")
              THEN [k \in {"X-RateLimit-Limit", "X-RateLimit-Remaining",
                           "X-RateLimit-Reset", "X-RateLimit-Window"} |->
                       CASE k = "X-RateLimit-Limit" -> str(field("limit", 0))
                         [] k = "X-RateLimit-Remaining" -> str(field("remaining", 0))
                         [] k = "X-RateLimit-Reset" -> field("reset_time", 0)
                         [] OTHER -> str(field("window_seconds", 0))]
              ELSE EmptyDict
    IN  IF has("limit_exceeded")
        THEN Put(h1, "Retry-After", str(field("window_seconds", 300)))
        ELSE h1

\* ---------------------------------------------- rate limiter: history
\* How far ClientExternal is in the sequence that starts with its first call
\* on an empty store: phase "fresh" before it, "counting" for calls 1..n made
\* inside the first window (t0: the first call, tB: call ceiling+1), "blocked"
\* after a call made before tB + cooldown, "after" after the first call made
\* later, "off" when the sequence left this shape (a call outside the window
\* before the ceiling was passed, a backend failure after the first call, or
\* its end).
SeqFresh == [phase |-> "fresh", n |-> 0, t0 |-> 0, tB |-> 0]
SeqOff == [phase |-> "off", n |-> 0, t0 |-> 0, tB |-> 0]
NextSeq(s, config, client_id, t, demoted) ==
    IF client_id # ClientExternal \/ s.phase = "off" THEN s
    ELSE IF s.phase = "fresh" THEN [phase |-> "counting", n |-> 1, t0 |-> t, tB |-> 0]
    ELSE IF demoted \/ s.phase = "after" THEN SeqOff
    ELSE IF s.phase = "counting" /\ s.n <= config.requests
    THEN IF t < s.t0 + config.window
         THEN [s EXCEPT !.n = s.n + 1,
                        !.tB = IF s.n = config.requests THEN t ELSE 0]
         ELSE SeqOff
    ELSE IF t < s.tB + config.block_duration
    THEN [s EXCEPT !.phase = "blocked"]
    ELSE [s EXCEPT !.phase = "after"]

\* ------------------------------------------- rate limiter: operations
\* RateLimitStore.__init__ on the given route; redis: the ping succeeded.
RLStart(endpoint_type, redis) ==
    /\ now = 0
    /\ route = endpoint_type
    /\ store = EmptyDict
    /\ redis_client = redis
    /\ redis_db = EmptyDict
    /\ result = None
    /\ blocked_until = None
    /\ seq = SeqFresh

\* PaymentRetryService.__init__
RetryStart ==
    /\ retry_contexts = EmptyDict
    /\ ret = None
    /\ reported = [p \in PaymentIntents |->
                      [failures |-> 0, successes |-> 0, notifications |-> 0]]

\* No request and no gateway report is in flight, and no pure method was
\* called.
Threads == 1..NThreads
ThreadIdle == [pc |-> "idle", item |-> None, current_count |-> 0, is_allowed |-> None]
\* The Order rows db.session.get finds: each belongs to user 1 and was just
\* created.  The session is that of the given user (None: not logged in) and
\* holds a cart.
OrderRows ==
    [o \in OrdersFound |-> [user_id |-> 1, status |-> "created",
                            stripe_payment_intent |-> None,
                            payment_completed_at |-> None]]
PaymentStart(configured, user_id) ==
    /\ orders = OrderRows
    /\ stripe_intents = EmptyDict
    /\ stripe_configured = configured
    /\ session = [user_id |-> user_id, cart |-> TRUE]
    /\ request = None
    /\ response = None
    /\ invoked = 0

ConcStart ==
    /\ PaymentStart(TRUE, None)
    /\ threads = [t \in Threads |-> ThreadIdle]
    /\ count0 = 0
    /\ call = None
    /\ handlers = [t \in Threads |-> None]
    /\ heap = EmptyDict
    /\ retry_index = EmptyDict

RLInit ==
    /\ \E endpoint_type \in EndpointTypes, redis \in BOOLEAN : RLStart(endpoint_type, redis)
    /\ RetryStart
    /\ ConcStart

\* A request of client_id reaches the decorated route: check_rate_limit runs.
\* failing: the store operation of the call (1: get, 2: incr, 3: set) whose
\* Redis call raises if it is made; 0: none.  The result is kept with the
\* number of store operations the call made, how many of them went to Redis,
\* and which one raised there.
Check(client_id) ==
    \E failing \in (IF redis_client THEN 0..3 ELSE {0}) :
      \E r \in {check_rate_limit(StoreState, route, client_id, now,
                                 failing = 1, failing = 2, failing = 3)} :
        LET calls == 1..Len(r.contacted)
            remote_error == IF failing \in calls /\ r.contacted[failing]
                            THEN failing ELSE 0
        IN  /\ store' = r.st.store
            /\ redis_client' = r.st.redis_client
            /\ redis_db' = r.st.redis_db
            /\ result' = Some([is_allowed |-> r.is_allowed, info |-> r.info,
                               store_calls |-> Len(r.contacted),
                               remote_calls |->
                                   Cardinality({j \in calls : r.contacted[j]}),
                               remote_error |-> remote_error])
            /\ blocked_until' = IF r.block_set
                                THEN Some(now + Config(route).block_duration)
                                ELSE blocked_until
            /\ seq' = NextSeq(seq, Config(route), client_id, now,
                              redis_client /\ ~r.st.redis_client)
            /\ UNCHANGED <<paymentvars, now, route, retryvars, concvars, fnvars, handlervars>>

\* PaymentRateLimiter.cleanup
Cleanup ==
    /\ store' = cleanup_expired(StoreState, now).store
    /\ result' = None
    /\ UNCHANGED <<paymentvars, now, route, redis_client, redis_db, blocked_until, seq, retryvars, concvars, fnvars, handlervars>>

\* The clock advances; the Redis server drops the keys that expired.
Tick ==
    /\ now + TickSeconds <= MaxTicks * TickSeconds
    /\ now' = now + TickSeconds
    /\ redis_db' = [k \in {key \in DOMAIN redis_db : redis_db[key].expires > now'}
                      |-> redis_db[k]]
    /\ blocked_until' = IF blocked_until # None /\ Val(blocked_until) <= now'
                        THEN None ELSE blocked_until
    /\ result' = None
    /\ UNCHANGED <<paymentvars, route, store, redis_client, seq, retryvars, concvars, fnvars, handlervars>>

Init == RLInit

Next ==
    \/ \E client_id \in Clients : Check(client_id)
    \/ Cleanup
    \/ Tick

Spec == Init /\ [][Next]_vars

\* ------------------------------------------ rate limiter: the whitelist
\* The map d with a live block and a counter above the ceiling recorded for
\* client_id at time t.
Recorded(d, endpoint_type, client_id, t) ==
    LET config == Config(endpoint_type)
        block == [value |-> str(1), expires |-> t + config.block_duration]
        counter == [value |-> str(config.requests + 1), expires |-> t + config.window]
    IN  Put(Put(d, block_key(endpoint_type, client_id), block),
            count_key(endpoint_type, client_id), counter)

\* check_rate_limit as a function of the store it finds: the store holds
\* nothing, or a block and a counter for one of the whitelisted identities,
\* in memory or in Redis.
BypassInit ==
    /\ \E endpoint_type \in EndpointTypes, redis \in BOOLEAN,
          recorded \in {None} \cup {Some(c) : c \in BypassClients} :
            LET d == IF recorded = None THEN EmptyDict
                     ELSE Recorded(EmptyDict, endpoint_type, Val(recorded), 0)
            IN  /\ route = endpoint_type
                /\ redis_client = redis
                /\ store = IF redis THEN EmptyDict ELSE d
                /\ redis_db = IF redis THEN d ELSE EmptyDict
    /\ now = 0
    /\ result = None
    /\ blocked_until = None
    /\ seq = SeqOff
    /\ RetryStart
    /\ ConcStart

BypassNext ==
    \/ \E client_id \in Clients \cup BypassClients : Check(client_id)
    \/ Cleanup

SpecBypass == BypassInit /\ [][BypassNext]_vars

\* ------------------------------------------ retry service: operations
\* handle_payment_failure: the contexts afterwards, the returned dict and
\* whether a notification went out.
handle_payment_failure(contexts, order_id, payment_intent_id, stripe_error, t) ==
    LET existing_context == get_retry_context(contexts, payment_intent_id)
        c1 == IF existing_context # None
              THEN add_retry_attempt(contexts, payment_intent_id, stripe_error, FALSE, t).contexts
              ELSE create_retry_context(contexts, order_id, payment_intent_id, stripe_error, t)
        reason == c1[payment_intent_id].original_failure_reason
        notify == reason \in DOMAIN retry_configs /\ retry_configs[reason].notify_customer
        n == IF notify
             THEN send_customer_notification(c1, order_id, reason, payment_intent_id)
             ELSE [contexts |-> c1, ret |-> TRUE, sent |-> FALSE]
        context == n.contexts[payment_intent_id]
    IN  [contexts |-> n.contexts,
         sent |-> n.sent,
         ret |-> [retry_context_created |-> TRUE,
                  failure_reason |-> context.original_failure_reason,
                  retry_strategy |-> context.retry_strategy,
                  will_retry |-> context.next_retry_at # None,
                  next_retry_at |-> context.next_retry_at,
                  attempts_made |-> context.current_attempts,
                  max_attempts |-> context.max_attempts,
                  customer_notified |-> context.customer_notified]]

\* handle_payment_success: the contexts afterwards and the returned flag.
handle_payment_success_mut_true(contexts, payment_intent_id, t) ==
    IF get_retry_context(contexts, payment_intent_id) # None
    THEN [contexts |-> add_retry_attempt(contexts, payment_intent_id, None, TRUE, t).contexts,
          ret |-> TRUE]
    ELSE [contexts |-> contexts, ret |-> TRUE]
handle_payment_success(contexts, payment_intent_id, t) ==
    IF get_retry_context(contexts, payment_intent_id) # None
    THEN [contexts |-> add_retry_attempt(contexts, payment_intent_id, None, TRUE, t).contexts,
          ret |-> TRUE]
    ELSE [contexts |-> contexts, ret |-> FALSE]

\* No more than MaxAttempts attempts are reported for one payment intent.
MayReport(payment_intent_id) ==
    payment_intent_id \in DOMAIN retry_contexts =>
        retry_contexts[payment_intent_id].current_attempts < MaxAttempts

\* The gateway reports a failed payment.  A payment intent belongs to one
\* order: the later failures of an intent are reported with the order of its
\* first failure, and with an error of LaterErrors.
HandlePaymentFailure(order_id, payment_intent_id, stripe_error) ==
    /\ MayReport(payment_intent_id)
    /\ IF payment_intent_id \in DOMAIN retry_contexts
       THEN /\ stripe_error \in LaterErrors
            /\ order_id = retry_contexts[payment_intent_id].order_id
       ELSE stripe_error \in FirstErrors
    /\ \E h \in {handle_payment_failure(retry_contexts, order_id, payment_intent_id,
                                          stripe_error, now)} :
           /\ retry_contexts' = h.contexts
           /\ ret' = Some([call |-> "handle_payment_failure",
                           payment_intent_id |-> payment_intent_id, value |-> h.ret])
           /\ reported' = [reported EXCEPT
                  ![payment_intent_id].failures = @ + 1,
                  ![payment_intent_id].notifications = @ + (IF h.sent THEN 1 ELSE 0)]
    /\ UNCHANGED <<paymentvars, rlvars, concvars, fnvars, handlervars>>

\* The gateway reports a succeeded payment.
HandlePaymentSuccess(payment_intent_id) ==
    /\ MayReport(payment_intent_id)
    /\ \E h \in {handle_payment_success(retry_contexts, payment_intent_id, now)} :
           /\ retry_contexts' = h.contexts
           /\ ret' = Some([call |-> "handle_payment_success",
                           payment_intent_id |-> payment_intent_id, value |-> h.ret])
           /\ reported' = [reported EXCEPT
                  ![payment_intent_id].successes = @ + (IF h.ret THEN 1 ELSE 0)]
    /\ UNCHANGED <<paymentvars, rlvars, concvars, fnvars, handlervars>>

\* payment_retry_service.get_retry_context(payment_intent_id)
GetRetryContext(payment_intent_id) ==
    /\ ret' = Some([call |-> "get_retry_context",
                    payment_intent_id |-> payment_intent_id,
                    value |-> get_retry_context(retry_contexts, payment_intent_id)])
    /\ UNCHANGED <<paymentvars, rlvars, retry_contexts, reported, concvars, fnvars, handlervars>>

\* payment_retry_service.add_retry_attempt(payment_intent_id, stripe_error, success),
\* with the arguments the handlers pass: an error and success=False, or None
\* and success=True.
AddRetryAttempt(payment_intent_id, stripe_error, success) ==
    /\ MayReport(payment_intent_id)
    /\ success <=> stripe_error = None
    /\ \E a \in {add_retry_attempt(retry_contexts, payment_intent_id, stripe_error,
                                     success, now)} :
           /\ retry_contexts' = a.contexts
           /\ ret' = Some([call |-> "add_retry_attempt",
                           payment_intent_id |-> payment_intent_id, value |-> a.ret])
           /\ reported' = [reported EXCEPT
                  ![payment_intent_id].failures =
                        @ + (IF a.ret /\ ~success THEN 1 ELSE 0),
                  ![payment_intent_id].successes =
                        @ + (IF a.ret /\ success THEN 1 ELSE 0)]
    /\ UNCHANGED <<paymentvars, rlvars, concvars, fnvars, handlervars>>

\* A caller asks for the retries that are due.
GetPendingRetries ==
    /\ ret' = Some([call |-> "get_pending_retries",
                    value |-> get_pending_retries(retry_contexts, now)])
    /\ UNCHANGED <<paymentvars, rlvars, retry_contexts, reported, concvars, fnvars, handlervars>>

\* The clock advances (datetime.utcnow()).
RetryTick ==
    /\ now + TickSeconds <= MaxRetryTicks * TickSeconds
    /\ now' = now + TickSeconds
    /\ ret' = None
    /\ UNCHANGED <<paymentvars, route, store, redis_client, redis_db, result, blocked_until, seq,
                   retry_contexts, reported, concvars, fnvars, handlervars>>

RetryInit ==
    /\ RLStart("payment_intent", FALSE)
    /\ RetryStart
    /\ ConcStart

RetryNext ==
    \/ \E order_id \in OrderIds, payment_intent_id \in PaymentIntents,
          stripe_error \in FirstErrors :
            HandlePaymentFailure(order_id, payment_intent_id, stripe_error)
    \/ \E payment_intent_id \in PaymentIntents : HandlePaymentSuccess(payment_intent_id)
    \/ \E payment_intent_id \in PaymentIntents : GetRetryContext(payment_intent_id)
    \/ \E payment_intent_id \in PaymentIntents, stripe_error \in LaterErrors \cup {None},
          success \in BOOLEAN :
            AddRetryAttempt(payment_intent_id, stripe_error, success)
    \/ GetPendingRetries
    \/ RetryTick

SpecRetry == RetryInit /\ [][RetryNext]_vars

\* --------------------------------- rate limiter: concurrent requests
\* NThreads worker threads each serve one request of the external client on
\* the in-memory store, all at the same instant of one window.  A step is
\* what a thread does between two accesses to the shared dict: get reads the
\* block key; incr reads the counter, then writes it; the decision writes the
\* block.  (Inside one window no entry expires, so get deletes nothing.)
ConcInit ==
    /\ \E endpoint_type \in EndpointTypes :
        \E c \in {0, Config(endpoint_type).requests - 1} :
            /\ route = endpoint_type
            /\ count0 = c
            /\ store = IF c = 0 THEN EmptyDict
                       ELSE Put(EmptyDict, count_key(endpoint_type, ClientExternal),
                                [value |-> str(c),
                                 expires |-> Config(endpoint_type).window])
    /\ now = 0
    /\ redis_client = FALSE
    /\ redis_db = EmptyDict
    /\ result = None
    /\ blocked_until = None
    /\ seq = SeqOff
    /\ RetryStart
    /\ PaymentStart(TRUE, None)
    /\ threads = [t \in Threads |-> [ThreadIdle EXCEPT !.pc = "get"]]
    /\ call = None
    /\ handlers = [t \in Threads |-> None]
    /\ heap = EmptyDict
    /\ retry_index = EmptyDict

ConcUnchanged ==
    UNCHANGED <<paymentvars, now, route, redis_client, redis_db, result, blocked_until, seq,
                retryvars, count0, fnvars, handlervars>>

\* check_rate_limit up to the block check: self.store.get(block_key)
ThreadGet(t) ==
    /\ threads[t].pc = "get"
    /\ ~_is_whitelisted(ClientExternal)
    /\ LET g == memory_get(StoreState, block_key(route, ClientExternal), now)
       IN  /\ store' = g.st.store
           /\ threads' = [threads EXCEPT ![t] =
                  IF Truthy(g.ret)
                  THEN [@ EXCEPT !.pc = "done", !.is_allowed = Some(FALSE)]
                  ELSE [@ EXCEPT !.pc = "incr_read"]]
    /\ ConcUnchanged

\* incr: item = self.store.get(key)
ThreadIncrRead(t) ==
    /\ threads[t].pc = "incr_read"
    /\ threads' = [threads EXCEPT ![t] =
           [@ EXCEPT !.pc = "incr_write",
                     !.item = dict_get(store, count_key(route, ClientExternal))]]
    /\ UNCHANGED store
    /\ ConcUnchanged

\* incr: self.store[key] = {...}; return count
ThreadIncrWrite(t) ==
    /\ threads[t].pc = "incr_write"
    /\ LET w == incr_item(threads[t].item, Config(route).window, now)
       IN  /\ store' = Put(store, count_key(route, ClientExternal), w.item)
           /\ threads' = [threads EXCEPT ![t] =
                  [@ EXCEPT !.pc = "decide", !.current_count = w.ret]]
    /\ ConcUnchanged

\* check_rate_limit from "if current_count > config['requests']" on
ThreadDecide(t) ==
    /\ threads[t].pc = "decide"
    /\ IF limit_exceeded(threads[t].current_count, Config(route))
       THEN /\ store' = set(StoreState, block_key(route, ClientExternal), str(1),
                            Config(route).block_duration, now, FALSE).store
            /\ threads' = [threads EXCEPT ![t] =
                   [@ EXCEPT !.pc = "done", !.is_allowed = Some(FALSE)]]
       ELSE /\ store' = store
            /\ threads' = [threads EXCEPT ![t] =
                   [@ EXCEPT !.pc = "done", !.is_allowed = Some(TRUE)]]
    /\ ConcUnchanged

ConcNext ==
    \E t \in Threads :
        \/ ThreadGet(t)
        \/ ThreadIncrRead(t)
        \/ ThreadIncrWrite(t)
        \/ ThreadDecide(t)

SpecConc == ConcInit /\ [][ConcNext]_vars

\* ----------------------------- retry service: concurrent gateway reports
\* NThreads worker threads each run one handle_payment_failure or
\* handle_payment_success call for the same payment intent of order 1, at the
\* same instant.  PaymentRetryContext objects live on the heap, retry_index
\* maps the id to the object stored for it, and a thread holds references.
\* A step is what a thread does between two accesses to the shared dict or
\* to a shared object.
HandlerCalls ==
    {[op |-> "failure", stripe_error |-> Some(ErrNetwork)],
     [op |-> "failure", stripe_error |-> Some(ErrUnmapped)],
     [op |-> "success", stripe_error |-> None]}

\* The locals of a handler that has not run yet.
HandlerStart(c) ==
    [pc |-> "lookup", op |-> c.op, stripe_error |-> c.stripe_error,
     existing_context |-> None, context |-> None, current_attempts |-> 0,
     retry_delay |-> 0, recorded |-> FALSE]

\* The heap object 0: the context of an earlier network failure.
EarlierContext ==
    create_retry_context(EmptyDict, 1, "pi_1", Some(ErrNetwork), 0)["pi_1"]

HandlersInit ==
    /\ RLStart("payment_intent", FALSE)
    /\ RetryStart
    /\ PaymentStart(TRUE, None)
    /\ threads = [t \in Threads |-> ThreadIdle]
    /\ count0 = 0
    /\ call = None
    /\ \E calls \in [Threads -> HandlerCalls] :
           handlers = [t \in Threads |-> HandlerStart(calls[t])]
    /\ \E earlier \in BOOLEAN :
           /\ heap = IF earlier THEN Put(EmptyDict, 0, EarlierContext) ELSE EmptyDict
           /\ retry_index = IF earlier THEN Put(EmptyDict, "pi_1", 0) ELSE EmptyDict

HandlersUnchanged == UNCHANGED <<rlvars, retryvars, concvars, fnvars, paymentvars>>

\* existing_context = payment_retry_service.get_retry_context(payment_intent_id)
\* (context = ... in handle_payment_success), and the branch on it.
HandlerLookup(t) ==
    /\ handlers[t].pc = "lookup"
    /\ LET found == dict_get(retry_index, "pi_1")
       IN  handlers' = [handlers EXCEPT ![t] =
               [@ EXCEPT !.existing_context = found,
                         !.pc = IF found # None THEN "get"
                                ELSE IF handlers[t].op = "failure" THEN "create"
                                ELSE "done"]]
    /\ UNCHANGED <<heap, retry_index>>
    /\ HandlersUnchanged

\* context = payment_retry_service.create_retry_context(...): the new object
\* is stored under the id.
HandlerCreate(t) ==
    /\ handlers[t].pc = "create"
    /\ heap' = Put(heap, t, create_retry_context(EmptyDict, 1, "pi_1",
                                                 handlers[t].stripe_error, now)["pi_1"])
    /\ retry_index' = Put(retry_index, "pi_1", t)
    /\ handlers' = [handlers EXCEPT ![t] =
           [@ EXCEPT !.context = Some(t), !.recorded = TRUE, !.pc = "notify"]]
    /\ HandlersUnchanged

\* add_retry_attempt: context = self.retry_contexts.get(payment_intent_id)
HandlerGet(t) ==
    /\ handlers[t].pc = "get"
    /\ handlers' = [handlers EXCEPT ![t] =
           [@ EXCEPT !.context = dict_get(retry_index, "pi_1"), !.pc = "read"]]
    /\ UNCHANGED <<heap, retry_index>>
    /\ HandlersUnchanged

\* context.current_attempts += 1: the read
HandlerRead(t) ==
    /\ handlers[t].pc = "read"
    /\ handlers' = [handlers EXCEPT ![t] =
           [@ EXCEPT !.current_attempts =
                         heap[Val(handlers[t].context)].current_attempts,
                     !.pc = "write"]]
    /\ UNCHANGED <<heap, retry_index>>
    /\ HandlersUnchanged

\* context.current_attempts += 1: the write
HandlerWrite(t) ==
    /\ handlers[t].pc = "write"
    /\ heap' = [heap EXCEPT ![Val(handlers[t].context)].current_attempts =
                                handlers[t].current_attempts + 1]
    /\ handlers' = [handlers EXCEPT ![t] = [@ EXCEPT !.pc = "decide"]]
    /\ UNCHANGED retry_index
    /\ HandlersUnchanged

\* add_retry_attempt: the if/else on should_retry_payment
HandlerDecide(t) ==
    /\ handlers[t].pc = "decide"
    /\ LET o == Val(handlers[t].context)
           d == retry_decision(heap[o], handlers[t].op = "success", now)
       IN  /\ heap' = [heap EXCEPT ![o] = d.context]
           /\ handlers' = [handlers EXCEPT ![t] =
                  [@ EXCEPT !.retry_delay = d.retry_delay, !.pc = "append"]]
    /\ UNCHANGED retry_index
    /\ HandlersUnchanged

\* add_retry_attempt: attempt = RetryAttempt(...); context.attempts.append(attempt);
\* return True.  handle_payment_failure goes on with context = existing_context.
HandlerAppend(t) ==
    /\ handlers[t].pc = "append"
    /\ LET o == Val(handlers[t].context)
           attempt == retry_attempt(heap[o], handlers[t].stripe_error,
                                    handlers[t].op = "success", handlers[t].retry_delay)
       IN  heap' = [heap EXCEPT ![o].attempts = Append(@, attempt)]
    /\ handlers' = [handlers EXCEPT ![t] =
           [@ EXCEPT !.recorded = TRUE,
                     !.context = handlers[t].existing_context,
                     !.pc = IF handlers[t].op = "failure" THEN "notify" ELSE "done"]]
    /\ UNCHANGED retry_index
    /\ HandlersUnchanged

\* handle_payment_failure: the notification if the category asks for one,
\* and the return.
HandlerNotify(t) ==
    /\ handlers[t].pc = "notify"
    /\ LET o == Val(handlers[t].context)
           reason == heap[o].original_failure_reason
       IN  heap' = IF reason \in DOMAIN retry_configs /\ retry_configs[reason].notify_customer
                   THEN send_customer_notification(heap, 1, reason, o).contexts
                   ELSE heap
    /\ handlers' = [handlers EXCEPT ![t] = [@ EXCEPT !.pc = "done"]]
    /\ UNCHANGED retry_index
    /\ HandlersUnchanged

HandlersNext ==
    \E t \in Threads :
        \/ HandlerLookup(t)
        \/ HandlerCreate(t)
        \/ HandlerGet(t)
        \/ HandlerRead(t)
        \/ HandlerWrite(t)
        \/ HandlerDecide(t)
        \/ HandlerAppend(t)
        \/ HandlerNotify(t)

SpecHandlers == HandlersInit /\ [][HandlersNext]_vars

\* ------------------------------------ retry service: the pure methods
\* The values a gateway error carries in code, type and decline_code: those
\* the classifier knows, one it does not ("bogus"), the empty string, and
\* None for an attribute the object does not have.
ErrorCodes ==
    {Some(c) : c \in {"card_declined", "generic_decline", "authentication_required",
                      "processing_error", "rate_limit", "bogus", ""}} \cup {None}
ErrorTypes ==
    {Some(c) : c \in {"card_error", "rate_limit_error", "api_connection_error",
                      "api_error", "bogus"}} \cup {None}
DeclineCodes ==
    {Some(c) : c \in {"insufficient_funds", "expired_card", "incorrect_cvc",
                      "invalid_cvc", "do_not_honor"}} \cup {None}

\* An error object with the attributes that are given.
ErrorObject(code, type, decline_code) ==
    LET attrs == [code |-> code, type |-> type, decline_code |-> decline_code]
    IN  [a \in {n \in DOMAIN attrs : attrs[n] # None} |-> Val(attrs[a])]

\* stripe_error as classify_failure_reason may get it: an object or None.
ErrorDescriptors ==
    {Some(ErrorObject(c, t, d)) : c \in ErrorCodes, t \in ErrorTypes, d \in DeclineCodes}
        \cup {None}

\* payment_retry_service.classify_failure_reason(stripe_error)
ClassifyFailureReason(stripe_error) ==
    /\ call' = Some([fn |-> "classify_failure_reason",
                     stripe_error |-> stripe_error,
                     value |-> classify_failure_reason(stripe_error)])
    /\ UNCHANGED <<paymentvars, rlvars, retryvars, concvars, handlervars>>

\* payment_retry_service.should_retry_payment(failure_reason, current_attempts)
ShouldRetryPayment(failure_reason, current_attempts) ==
    /\ call' = Some([fn |-> "should_retry_payment",
                     failure_reason |-> failure_reason,
                     current_attempts |-> current_attempts,
                     value |-> should_retry_payment(failure_reason, current_attempts)])
    /\ UNCHANGED <<paymentvars, rlvars, retryvars, concvars, handlervars>>

\* payment_retry_service.calculate_retry_delay(strategy, attempt_number)
CalculateRetryDelay(strategy, attempt_number) ==
    /\ call' = Some([fn |-> "calculate_retry_delay",
                     strategy |-> strategy,
                     attempt_number |-> attempt_number,
                     value |-> calculate_retry_delay(strategy, attempt_number)])
    /\ UNCHANGED <<paymentvars, rlvars, retryvars, concvars, handlervars>>

FnInit ==
    /\ RLStart("payment_intent", FALSE)
    /\ RetryStart
    /\ ConcStart

FnNext ==
    \/ \E stripe_error \in ErrorDescriptors : ClassifyFailureReason(stripe_error)
    \/ \E failure_reason \in PaymentFailureReason, current_attempts \in 0..MaxAttempts :
            ShouldRetryPayment(failure_reason, current_attempts)
    \/ \E strategy \in RetryStrategy, attempt_number \in 1..MaxAttempts :
            CalculateRetryDelay(strategy, attempt_number)

SpecFn == FnInit /\ [][FnNext]_vars

\* ------------------------------------------------- the payment routes
\* The orders, the gateway's intents and the session, as one value.
PaymentState == [orders |-> orders, stripe_intents |-> stripe_intents, session |-> session]

\* The statuses the gateway reports for a payment intent, and the final one.
GatewayStatuses == {"requires_payment_method", "requires_action", "succeeded"}
GatewayFinal == {"succeeded"}

\* intent.id of the n-th payment intent the gateway creates.
IntentId(n) == "pi_" \o ToString(n)

\* request.get_json(): None, or a dict.  The bodies sent to the two routes.
CreateIntentBodies ==
    {None, Some(EmptyDict)} \cup {Some([order_id |-> o]) : o \in OrderIds}
ConfirmBodies ==
    {None, Some(EmptyDict)}
        \cup {Some([payment_intent_id |-> IntentId(n)]) : n \in 1..(MaxIntents + 1)}

\* A value a route returns: jsonify(body) alone, which is a Response with
\* status 200, or the pair (jsonify(body), status_code).
Json(body) == [status_code |-> 200, body |-> body, is_response |-> TRUE]
JsonStatus(body, status_code) ==
    [status_code |-> status_code, body |-> body, is_response |-> FALSE]

\* StripeService.create_payment_intent(order); gateway_ok: PaymentIntent.create
\* does not raise.  Of the returned dict the payment_intent_id is kept.
create_payment_intent(ps, configured, order_id, gateway_ok) ==
    IF ~configured
    THEN [ps |-> ps, success |-> FALSE, result |-> [error |-> "Stripe not configured"]]
    ELSE IF ~gateway_ok
    THEN [ps |-> ps, success |-> FALSE, result |-> [error |-> "Payment error"]]
    ELSE
    LET intent_id == IntentId(Cardinality(DOMAIN ps.stripe_intents) + 1)
    IN  [ps |-> [ps EXCEPT
                    !.stripe_intents = Put(@, intent_id, "requires_payment_method"),
                    !.orders[order_id].stripe_payment_intent = Some(intent_id),
                    !.orders[order_id].status = "payment_pending"],
         success |-> TRUE,
         result |-> [payment_intent_id |-> intent_id]]

\* routes/payment.py create_intent, without its decorator.
create_intent(ps, configured, data, gateway_ok) ==
    IF data = None
    THEN [ps |-> ps, response |-> JsonStatus([error |-> "Payment system error"], 500)]
    ELSE
    LET order_id == dict_get(Val(data), "order_id")
    IN  IF order_id = None \/ Val(order_id) = 0
        THEN [ps |-> ps, response |-> JsonStatus([error |-> "Order ID required"], 400)]
        ELSE IF Val(order_id) \notin DOMAIN ps.orders
        THEN [ps |-> ps, response |-> JsonStatus([error |-> "Order not found"], 404)]
        ELSE IF ps.session.user_id # None
                /\ ps.orders[Val(order_id)].user_id # Val(ps.session.user_id)
        THEN [ps |-> ps, response |-> JsonStatus([error |-> "Unauthorized"], 403)]
        ELSE
        LET c == create_payment_intent(ps, configured, Val(order_id), gateway_ok)
        IN  [ps |-> c.ps,
             response |-> IF c.success THEN Json(c.result) ELSE JsonStatus(c.result, 400)]

\* Order.query.filter_by(stripe_payment_intent=payment_intent_id).first()
order_by_intent(order_rows, payment_intent_id) ==
    LET found == {o \in DOMAIN order_rows :
                     order_rows[o].stripe_payment_intent = Some(payment_intent_id)}
    IN  IF found = {} THEN None
        ELSE Some(CHOOSE o \in found : \A other \in found : o <= other)

\* The order status StripeService.handle_payment_success writes for the
\* status the gateway reports.
order_status(stripe_status) ==
    IF stripe_status = "succeeded" THEN "paid"
    ELSE IF stripe_status \in {"requires_action", "requires_confirmation"}
    THEN "payment_pending"
    ELSE "payment_failed"

\* StripeService.handle_payment_success(payment_intent_id); gateway_ok:
\* PaymentIntent.retrieve does not raise.  Gives the returned pair (order:
\* the id of the Order returned, or None).
StripeService_handle_payment_success(ps, payment_intent_id, gateway_ok, t) ==
    LET order == order_by_intent(ps.orders, payment_intent_id)
    IN  IF order = None
        THEN [ps |-> ps, success |-> FALSE, order |-> None]
        ELSE IF ~gateway_ok \/ payment_intent_id \notin DOMAIN ps.stripe_intents
        THEN [ps |-> ps, success |-> FALSE, order |-> order]
        ELSE
        LET stripe_status == ps.stripe_intents[payment_intent_id]
            o == Val(order)
        IN  [ps |-> [ps EXCEPT
                        !.orders[o].status = order_status(stripe_status),
                        !.orders[o].payment_completed_at =
                            IF stripe_status = "succeeded" /\ @ = None
                            THEN Some(t) ELSE @],
             success |-> TRUE,
             order |-> order]

\* routes/payment.py confirm_payment, without its decorator.
confirm_payment(ps, data, gateway_ok, t) ==
    IF data = None
    THEN [ps |-> ps, response |-> JsonStatus([error |-> "Payment confirmation error"], 500)]
    ELSE
    LET payment_intent_id == dict_get(Val(data), "payment_intent_id")
    IN  IF payment_intent_id = None
        THEN [ps |-> ps,
              response |-> JsonStatus([error |-> "Payment Intent ID required"], 400)]
        ELSE
        LET h == StripeService_handle_payment_success(ps, Val(payment_intent_id),
                                                      gateway_ok, t)
        IN  IF h.success /\ h.order # None
            THEN [ps |-> [h.ps EXCEPT !.session.cart = FALSE],
                  response |-> Json([success |-> TRUE, order_id |-> Val(h.order)])]
            ELSE [ps |-> h.ps,
                  response |-> JsonStatus([error |-> "Payment confirmation failed"], 400)]

\* rate_limit(endpoint_type)(f): decorated_function, from the pair that
\* check_rate_limit returned; h: what f does and returns when it is called
\* on ps.  Gives the state afterwards, the response, and how often f was
\* called.
decorated_function_mut_always(is_allowed, limit_info, ps, h) ==
    LET headers == get_rate_limit_headers(limit_info)
    IN  IF ~is_allowed
        THEN [ps |-> h.ps, invoked |-> 1,
              response |-> [status_code |-> 429,
                            body |-> [error |-> "Rate limit exceeded"],
                            headers |-> headers]]
        ELSE [ps |-> h.ps, invoked |-> 1,
              response |-> [status_code |-> h.response.status_code,
                            body |-> h.response.body,
                            headers |-> IF h.response.is_response
                                        THEN headers ELSE EmptyDict]]
decorated_function(is_allowed, limit_info, ps, h) ==
    LET headers == get_rate_limit_headers(limit_info)
    IN  IF ~is_allowed
        THEN [ps |-> ps, invoked |-> 0,
              response |-> [status_code |-> 429,
                            body |-> [error |-> "Rate limit exceeded"],
                            headers |-> headers]]
        ELSE [ps |-> h.ps, invoked |-> 1,
              response |-> [status_code |-> h.response.status_code,
                            body |-> h.response.body,
                            headers |-> IF h.response.is_response
                                        THEN headers ELSE EmptyDict]]

\* A request of client_id to the decorated route f (endpoint_type) is
\* answered; r: what check_rate_limit did on the limiter's store and
\* returned, h: what the route's function does on the present state.
Answer(f, endpoint_type, client_id, data, gateway_ok, r, h) ==
    \E d \in {decorated_function(r.is_allowed, r.info, PaymentState, h)} :
        /\ store' = r.st.store
        /\ redis_client' = r.st.redis_client
        /\ redis_db' = r.st.redis_db
        /\ route' = endpoint_type
        /\ result' = Some([is_allowed |-> r.is_allowed, info |-> r.info,
                           store_calls |-> Len(r.contacted),
                           remote_calls |-> 0, remote_error |-> 0])
        /\ orders' = d.ps.orders
        /\ stripe_intents' = d.ps.stripe_intents
        /\ session' = d.ps.session
        /\ request' = Some([route |-> f, client_id |-> client_id, data |-> data,
                            gateway_ok |-> gateway_ok])
        /\ response' = Some(d.response)
        /\ invoked' = d.invoked
        /\ UNCHANGED <<now, blocked_until, seq, stripe_configured,
                       retryvars, concvars, fnvars, handlervars>>

\* POST /payment/create-intent from client_id, with any of the bodies;
\* gateway_ok: the gateway call does not raise.  The gateway creates no more
\* than MaxIntents payment intents.
CreateIntent(client_id) ==
    /\ Cardinality(DOMAIN stripe_intents) < MaxIntents
    /\ \E r \in {check_rate_limit(StoreState, "payment_intent", client_id, now,
                                  FALSE, FALSE, FALSE)} :
         \E data \in CreateIntentBodies, gateway_ok \in BOOLEAN :
           \E h \in {create_intent(PaymentState, stripe_configured, data, gateway_ok)} :
             Answer("create_intent", "payment_intent", client_id, data, gateway_ok, r, h)

\* POST /payment/confirm from client_id, with any of the bodies.
ConfirmPayment(client_id) ==
    \E r \in {check_rate_limit(StoreState, "payment_confirm", client_id, now,
                               FALSE, FALSE, FALSE)} :
      \E data \in ConfirmBodies, gateway_ok \in BOOLEAN :
        \E h \in {confirm_payment(PaymentState, data, gateway_ok, now)} :
          Answer("confirm_payment", "payment_confirm", client_id, data, gateway_ok, r, h)

\* The customer pays, or fails to, at the gateway: the status of a payment
\* intent that is not final changes.
GatewayAdvance(payment_intent_id, stripe_status) ==
    /\ payment_intent_id \in DOMAIN stripe_intents
    /\ stripe_intents[payment_intent_id] \notin GatewayFinal
    /\ stripe_status # stripe_intents[payment_intent_id]
    /\ stripe_intents' = [stripe_intents EXCEPT ![payment_intent_id] = stripe_status]
    /\ request' = None
    /\ response' = None
    /\ invoked' = 0
    /\ result' = None
    /\ UNCHANGED <<now, route, store, redis_client, redis_db, blocked_until, seq,
                   orders, stripe_configured, session,
                   retryvars, concvars, fnvars, handlervars>>

\* The application starts with the in-memory limiter store, Stripe
\* configured or not, and a visitor who is not logged in, the orders' owner,
\* or another user.
PaymentInit ==
    /\ RLStart("payment_intent", FALSE)
    /\ RetryStart
    /\ threads = [t \in Threads |-> ThreadIdle]
    /\ count0 = 0
    /\ call = None
    /\ handlers = [t \in Threads |-> None]
    /\ heap = EmptyDict
    /\ retry_index = EmptyDict
    /\ \E configured \in BOOLEAN, user_id \in {None, Some(1), Some(2)} :
           PaymentStart(configured, user_id)

\* The requests come from the external client, which the limiter counts.
PaymentNext ==
    \/ CreateIntent(ClientExternal)
    \/ ConfirmPayment(ClientExternal)
    \/ \E payment_intent_id \in DOMAIN stripe_intents, stripe_status \in GatewayStatuses :
            GatewayAdvance(payment_intent_id, stripe_status)

SpecPayment == PaymentInit /\ [][PaymentNext]_vars

\* ------------------------------------------------ rate limiter: claims
\* The last step was a check_rate_limit call of the external client.
ExternalResult == result # None /\ Val(result).info.client_id = ClientExternal

\* The record the store in use holds under key (its server's, while Redis is in use).
Held(key) ==
    IF redis_client
    THEN (IF RedisHas(redis_db, key, now) THEN Some(redis_db[key]) ELSE None)
    ELSE (IF key \in DOMAIN store THEN Some(store[key]) ELSE None)

\* C1: for the route's ceiling L, window W and cooldown B, and the external
\* client starting with no record: its calls 1..L made inside the window are
\* allowed and counted 1..L; call L+1 inside the window is rejected and sets
\* a block that expires B later; every further call made before that expiry
\* is rejected; the first call made at or after it is allowed and counted as
\* request 1.
C1_WindowBehaviour ==
    ExternalResult =>
        LET r == Val(result)
            config == Config(route)
            blk == Held(block_key(route, ClientExternal))
        IN  /\ (seq.phase = "counting" /\ seq.n <= config.requests) =>
                    /\ r.is_allowed
                    /\ r.info.requests_made = seq.n
            /\ (seq.phase = "counting" /\ seq.n = config.requests + 1) =>
                    /\ ~r.is_allowed
                    /\ blk # None
                    /\ Val(blk).expires = seq.tB + config.block_duration
            /\ seq.phase = "blocked" => ~r.is_allowed
            /\ seq.phase = "after" =>
                    /\ r.is_allowed
                    /\ r.info.requests_made = 1

\* C1 witness: on the payment_intent route (ceiling 10) the sequence ran to
\* its end: the call after the cooldown was made and allowed.
C1_Witness ==
    /\ route = "payment_intent"
    /\ ExternalResult
    /\ seq.phase = "after"
    /\ seq.tB > seq.t0
    /\ Val(result).is_allowed

\* C8: while now is before the expiry of a block that was set for the
\* external client, every check_rate_limit call of that client is rejected,
\* whatever checks, cleanups and backend failures came in between.
C8_BlockHonoured ==
    (ExternalResult /\ blocked_until # None /\ now < Val(blocked_until))
        => ~Val(result).is_allowed

\* C9: a rejection for an unexpired block reports the remaining block
\* duration, blocked-until minus now, as its retry-after value.
C9_RetryAfterIsRemaining ==
    (ExternalResult /\ "blocked" \in DOMAIN Val(result).info) =>
        LET blk == Held(block_key(route, ClientExternal))
        IN  /\ blk # None
            /\ Val(result).info.block_expires_in = Val(blk).expires - now

\* C12: demotion is sticky.  A store operation whose Redis call raises leaves
\* the store demoted; and once the store is demoted it stays demoted, every
\* later operation of check_rate_limit and cleanup works on the in-memory map
\* only, and none goes to Redis.
C12_DemotionSticky ==
    [][/\ (result' # None /\ Val(result').remote_error > 0) => ~redis_client'
       /\ ~redis_client =>
              /\ ~redis_client'
              /\ redis_db' = redis_db
              /\ result' # None =>
                    /\ Val(result').remote_calls = 0
                    /\ Val(result').remote_error = 0]_vars

\* C12 witness: after a block had been set in Redis and a Redis call had
\* raised, a later call of the external client ran on the in-memory map
\* alone (it was counted there as the second request).
C12_Witness ==
    /\ ExternalResult
    /\ ~redis_client
    /\ blocked_until # None
    /\ Val(result).store_calls = 2
    /\ Val(result).remote_calls = 0
    /\ Val(result).info.requests_made = 2

\* C13: a check_rate_limit call during which a Redis call raises returns an
\* ordinary result computed on the in-memory map: it is allowed, or rejected
\* with limit_exceeded because the count had passed the ceiling; it is never
\* rejected for the failure, and the entry the call wrote is in the map.
C13_FailureNotSurfaced ==
    (ExternalResult /\ Val(result).remote_error > 0) =>
        LET r == Val(result)
            counter == count_key(route, ClientExternal)
            block == block_key(route, ClientExternal)
        IN  /\ ~redis_client
            /\ r.is_allowed \in BOOLEAN
            /\ "blocked" \notin DOMAIN r.info
            /\ r.is_allowed => "allowed" \in DOMAIN r.info
            /\ ~r.is_allowed =>
                    /\ "limit_exceeded" \in DOMAIN r.info
                    /\ r.info.requests_made > Config(route).requests
            /\ r.remote_error \in {1, 2} =>
                    /\ r.is_allowed
                    /\ counter \in DOMAIN store
                    /\ store[counter].value = str(r.info.requests_made)
            /\ r.remote_error = 3 =>
                    /\ block \in DOMAIN store
                    /\ store[block].expires = now + Config(route).block_duration

\* C13 witness: the block lookup of a call raised in Redis, and the call
\* came back allowed, counted in memory as request 1.
C13_Witness ==
    /\ ExternalResult
    /\ Val(result).remote_error = 1
    /\ Val(result).is_allowed
    /\ Val(result).info.requests_made = 1
    /\ count_key(route, ClientExternal) \in DOMAIN store

\* The spellings of "admin" in every letter case.
AdminSpellings ==
    {<<a, d, m, i, n>> : a \in {"a", "A"}, d \in {"d", "D"}, m \in {"m", "M"},
                         i \in {"i", "I"}, n \in {"n", "N"}}

\* The client identity contains '127.0.0.1' or 'localhost', or 'admin' in
\* some letter case.
HasBypassMarker(client_id) ==
    \/ Contains(client_id, Str127)
    \/ Contains(client_id, StrLocalhost)
    \/ \E spelling \in AdminSpellings : Contains(client_id, spelling)

\* C14: for a client identity with a bypass marker, check_rate_limit returns
\* allowed on every route, whatever counter or block is recorded for that
\* identity, and the call makes no store operation: the map, the Redis
\* contents and the choice of the backend are as before.
C14_WhitelistBypass ==
    [][(result' # None /\ HasBypassMarker(Val(result').info.client_id)) =>
          /\ Val(result').is_allowed
          /\ Val(result').store_calls = 0
          /\ store' = store
          /\ redis_db' = redis_db
          /\ redis_client' = redis_client]_vars

\* C14 witness: the client "9.9|user:Admin" was let through while a live
\* block and a counter above the ceiling were recorded for it.
C14_Witness ==
    /\ result # None
    /\ Val(result).info.client_id = ClientAdmin
    /\ Val(result).is_allowed
    /\ Held(block_key(route, ClientAdmin)) # None
    /\ \E c \in Held(count_key(route, ClientAdmin)) :
            int(c.value) > Config(route).requests

\* C28: a check_rate_limit call rejected because the client is blocked
\* changes nothing that is stored: not the window counter, not the block's
\* expiry, in memory or in Redis.
C28_BlockedCallChangesNothing ==
    [][(result' # None /\ "blocked" \in DOMAIN Val(result').info) =>
          /\ store' = store
          /\ redis_db' = redis_db
          /\ redis_client' = redis_client]_vars

\* C28 witness: with the in-memory store, a call of the external client made
\* some time into its block was rejected as blocked.
C28_Witness ==
    /\ ExternalResult
    /\ "blocked" \in DOMAIN Val(result).info
    /\ ~redis_client
    /\ block_key(route, ClientExternal) \in DOMAIN store
    /\ now > 0
    /\ store[block_key(route, ClientExternal)].expires > now

\* C29: with the in-memory store, a call that counts the request raises an
\* unexpired counter by exactly 1 and keeps its expiry, and starts a counter
\* that is missing or expired (expiry <= now) at 1 with expiry now + window;
\* so the counter of a window opened at t0 expires at t0 + window.
C29_FixedWindow ==
    [][(/\ ~redis_client
        /\ result' # None
        /\ "requests_made" \in DOMAIN Val(result').info) =>
          LET k == count_key(route, Val(result').info.client_id)
              W == Config(route).window
              made == Val(result').info.requests_made
          IN  /\ IF k \in DOMAIN store /\ store[k].expires > now
                 THEN /\ made = int(store[k].value) + 1
                      /\ store'[k] = [value |-> str(int(store[k].value) + 1),
                                      expires |-> store[k].expires]
                 ELSE /\ made = 1
                      /\ store'[k] = [value |-> str(1), expires |-> now + W]
              /\ seq'.phase = "counting" => store'[k].expires = seq'.t0 + W]_vars

\* C29 witness: with the in-memory store, a request was counted into a
\* window opened earlier: the counter's expiry is not now + window.
C29_Witness ==
    /\ ExternalResult
    /\ ~redis_client
    /\ "requests_made" \in DOMAIN Val(result).info
    /\ Val(result).info.requests_made >= 2
    /\ store[count_key(route, ClientExternal)].expires < now + Config(route).window

\* The entries of an in-memory store that have not expired at time t.
Live(st, t) ==
    [k \in {key \in DOMAIN st.store : st.store[key].expires > t} |-> st.store[k]]

\* The keys of the route's clients.
RouteKeys ==
    {block_key(route, c) : c \in Clients} \cup {count_key(route, c) : c \in Clients}

\* C30: with the in-memory store, cleanup_expired removes exactly the
\* entries whose expiry is <= now and leaves the others as they are; and
\* with any of the expired entries removed, get, incr and check_rate_limit
\* return what they return on the store as it is, and leave the same
\* unexpired entries.
C30_CleanupUnobservable ==
    ~redis_client =>
        LET st == StoreState
            expired == {k \in DOMAIN store : store[k].expires <= now}
            cleaned == cleanup_expired(st, now)
            W == Config(route).window
        IN  /\ DOMAIN cleaned.store = DOMAIN store \ expired
            /\ \A k \in DOMAIN cleaned.store : cleaned.store[k] = store[k]
            /\ \A D \in SUBSET expired :
                  \A without \in {IF D = expired THEN cleaned
                                   ELSE [st EXCEPT !.store =
                                            [k \in DOMAIN store \ D |-> store[k]]]} :
                    /\ \A client_id \in Clients :
                          \E a \in {check_rate_limit(st, route, client_id, now,
                                                    FALSE, FALSE, FALSE)},
                             b \in {check_rate_limit(without, route, client_id, now,
                                                    FALSE, FALSE, FALSE)} :
                            /\ a.is_allowed = b.is_allowed
                            /\ a.info = b.info
                            /\ Live(a.st, now) = Live(b.st, now)
                    /\ \A key \in RouteKeys :
                          /\ \E a \in {get(st, key, now, FALSE)},
                                b \in {get(without, key, now, FALSE)} :
                                  /\ a.ret = b.ret
                                  /\ Live(a.st, now) = Live(b.st, now)
                          /\ \E a \in {incr(st, key, W, now, FALSE)},
                                b \in {incr(without, key, W, now, FALSE)} :
                                  /\ a.ret = b.ret
                                  /\ Live(a.st, now) = Live(b.st, now)

\* C30 witness: with the in-memory store, the client's
\* counter and block both expired and a cleanup removed them.
C30_Witness ==
    /\ ~redis_client
    /\ seq.phase = "blocked"
    /\ store = EmptyDict
    /\ result = None

\* ----------------------------------------------- retry service: claims
\* The last step was a handle_payment_failure call.
FailureReturned == ret # None /\ Val(ret).call = "handle_payment_failure"

\* Only failures were reported for the payment intent, k of them.
OnlyFailures(p, k) == reported[p].failures = k /\ reported[p].successes = 0

\* C2: for a context opened in a retryable category with attempt budget N,
\* while only failures are reported: after the k-th failure with k < N,
\* should_retry_payment(category, k) is true, next_retry_at is set and
\* final_failure is false; after the N-th failure should_retry_payment(category, N)
\* is false, final_failure is true and next_retry_at is None.
C2_ExhaustionBoundary ==
    \A p \in DOMAIN retry_contexts :
        LET c == retry_contexts[p]
            category == c.original_failure_reason
            N == retry_configs[category].max_attempts
            k == reported[p].failures
        IN  (retry_configs[category].strategy \notin NoRetryStrategies
                /\ reported[p].successes = 0) =>
                /\ k < N => /\ should_retry_payment(category, k)
                            /\ c.next_retry_at # None
                            /\ ~c.final_failure
                /\ k = N => /\ ~should_retry_payment(category, N)
                            /\ c.final_failure
                            /\ c.next_retry_at = None

\* C2 witness: the fifth failure in a row of a network_error context
\* (budget 5) was reported and exhausted it.
C2_Witness ==
    /\ FailureReturned
    /\ "pi_1" \in DOMAIN retry_contexts
    /\ retry_contexts["pi_1"].original_failure_reason = "network_error"
    /\ OnlyFailures("pi_1", 5)
    /\ retry_contexts["pi_1"].final_failure

\* C3: the context of a first failure in a no_retry or user_action category
\* is exhausted at once: final_failure is true, current_attempts is 1 and
\* next_retry_at is None.
C3_ExhaustedAtCreation ==
    \A p \in DOMAIN retry_contexts :
        LET c == retry_contexts[p]
        IN  (c.retry_strategy \in NoRetryStrategies /\ OnlyFailures(p, 1)) =>
                /\ c.final_failure
                /\ c.current_attempts = 1
                /\ c.next_retry_at = None

\* C4: after exactly one reported failure in a no_retry or user_action
\* category the context has next_retry_at None and current_attempts 1, and
\* handle_payment_failure reports will_retry false.
C4_NoRetryNeverSchedules ==
    \A p \in DOMAIN retry_contexts :
        LET c == retry_contexts[p]
        IN  (retry_configs[c.original_failure_reason].strategy \in NoRetryStrategies
                /\ OnlyFailures(p, 1)) =>
                /\ c.next_retry_at = None
                /\ c.current_attempts = 1
                /\ FailureReturned => ~Val(ret).value.will_retry

\* C4 witness: a card with insufficient funds failed once and the handler
\* has just returned.
C4_Witness ==
    /\ FailureReturned
    /\ "pi_1" \in DOMAIN retry_contexts
    /\ retry_contexts["pi_1"].original_failure_reason = "insufficient_funds"
    /\ OnlyFailures("pi_1", 1)
    /\ Val(ret).value.attempts_made = 1

\* A success attempt is recorded in the context.
Succeeded(c) == \E i \in 1..Len(c.attempts) : c.attempts[i].success

\* C5: a context with a recorded success is terminal: right after the
\* success final_failure is false and next_retry_at is None, and whatever is
\* reported later, no retry is scheduled and the context is not among the
\* pending retries.
C5_SucceededIsTerminal ==
    \A p \in DOMAIN retry_contexts :
        LET c == retry_contexts[p]
        IN  Succeeded(c) =>
                /\ c.attempts[Len(c.attempts)].success =>
                        (~c.final_failure /\ c.next_retry_at = None)
                /\ c.next_retry_at = None
                /\ p \notin get_pending_retries(retry_contexts, now)

\* C6: once final_failure is true, no later call sets it back to false or
\* sets next_retry_at.
C6_ExhaustedIsTerminal ==
    [][\A p \in DOMAIN retry_contexts :
          retry_contexts[p].final_failure =>
              /\ retry_contexts'[p].final_failure
              /\ retry_contexts'[p].next_retry_at = None]_vars

Returned(fn) == ret # None /\ Val(ret).call = fn

\* C19: get_pending_retries changes no retry context and not the context map,
\* and returns exactly the contexts whose next_retry_at is set and not after
\* now and whose final_failure is false.
C19_PendingIsPureQuery ==
    [][(ret' # None /\ Val(ret').call = "get_pending_retries") =>
          /\ retry_contexts' = retry_contexts
          /\ Val(ret').value =
                {p \in DOMAIN retry_contexts :
                    LET c == retry_contexts[p]
                    IN  /\ c.next_retry_at # None
                        /\ \E at \in c.next_retry_at : at <= now
                        /\ c.final_failure = FALSE}]_vars

\* C19 witness: the query returned a context whose retry had become due.
C19_Witness ==
    /\ Returned("get_pending_retries")
    /\ Val(ret).value = {"pi_1"}
    /\ Val(retry_contexts["pi_1"].next_retry_at) < now

\* C20: on a payment intent without a retry context, get_retry_context
\* returns None, add_retry_attempt returns False and handle_payment_success
\* returns False, and none of them creates or changes a context.
C20_UnknownIdNotFound ==
    [][\A fn \in {"get_retry_context", "add_retry_attempt", "handle_payment_success"} :
          (/\ ret' # None
           /\ Val(ret').call = fn
           /\ Val(ret').payment_intent_id \notin DOMAIN retry_contexts) =>
              /\ Val(ret').value = (IF fn = "get_retry_context" THEN None ELSE FALSE)
              /\ retry_contexts' = retry_contexts]_vars

\* C20 witness: handle_payment_success was called for a payment intent that
\* never failed, and returned False.
C20_Witness ==
    /\ Returned("handle_payment_success")
    /\ Val(ret).payment_intent_id \notin DOMAIN retry_contexts
    /\ Val(ret).value = FALSE

\* C24: every retry context has current_attempts = len(attempts), and its
\* i-th recorded attempt has attempt_number i.
C24_AttemptsNumbered ==
    \A p \in DOMAIN retry_contexts :
        LET c == retry_contexts[p]
        IN  /\ c.current_attempts = Len(c.attempts)
            /\ \A i \in 1..Len(c.attempts) : c.attempts[i].attempt_number = i

\* C24 witness: a context with four recorded attempts, failures and a success
\* among them, after a handle_payment_success call.
C24_Witness ==
    /\ Returned("handle_payment_success")
    /\ "pi_1" \in DOMAIN retry_contexts
    /\ Len(retry_contexts["pi_1"].attempts) = 4
    /\ reported["pi_1"].failures = 3

\* C25: a context whose next_retry_at is set has a strategy other than
\* no_retry and user_action, and current_attempts < max_attempts.
C25_ScheduledHasBudget ==
    \A p \in DOMAIN retry_contexts :
        LET c == retry_contexts[p]
        IN  c.next_retry_at # None =>
                /\ c.retry_strategy \notin {"no_retry", "user_action"}
                /\ c.current_attempts < c.max_attempts

\* C25 witness: right after the context of an unknown failure (budget 2) was
\* created, its first retry is scheduled.
C25_Witness ==
    /\ FailureReturned
    /\ "pi_1" \in DOMAIN retry_contexts
    /\ retry_contexts["pi_1"].original_failure_reason = "unknown"
    /\ retry_contexts["pi_1"].current_attempts = 1
    /\ retry_contexts["pi_1"].next_retry_at # None

\* C26: a context whose final_failure is true has no next_retry_at.
C26_FinalHasNoRetry ==
    \A p \in DOMAIN retry_contexts :
        retry_contexts[p].final_failure => retry_contexts[p].next_retry_at = None

\* C26 witness: a further failure was reported on a context that was already
\* a final failure.
C26_Witness ==
    /\ Returned("add_retry_attempt")
    /\ "pi_1" \in DOMAIN retry_contexts
    /\ retry_contexts["pi_1"].original_failure_reason = "processing_error"
    /\ retry_contexts["pi_1"].final_failure
    /\ OnlyFailures("pi_1", 4)

\* C27: a call that runs add_retry_attempt on a context leaves its order_id,
\* payment_intent_id, original_failure_reason, retry_strategy, max_attempts
\* and created_at as they were; after a reported failure another retry is
\* scheduled exactly when the original category is retryable and the new
\* attempt count is below its budget, whatever error was reported.
C27_AddAttemptFrame ==
    [][\A p \in DOMAIN retry_contexts :
          (/\ ret' # None
           /\ Val(ret').call \in {"add_retry_attempt", "handle_payment_failure",
                                   "handle_payment_success"}
           /\ Val(ret').payment_intent_id = p) =>
              LET c == retry_contexts[p]
                  d == retry_contexts'[p]
                  category == c.original_failure_reason
              IN  /\ d.order_id = c.order_id
                  /\ d.payment_intent_id = c.payment_intent_id
                  /\ d.original_failure_reason = c.original_failure_reason
                  /\ d.retry_strategy = c.retry_strategy
                  /\ d.max_attempts = c.max_attempts
                  /\ d.created_at = c.created_at
                  /\ d.current_attempts = c.current_attempts + 1
                  /\ reported'[p].failures = reported[p].failures + 1 =>
                        (d.next_retry_at # None <=>
                            /\ retry_configs[category].strategy \notin NoRetryStrategies
                            /\ d.current_attempts < retry_configs[category].max_attempts)]_vars

\* C27 witness: a card decline, which is not retryable, was reported at a
\* later time on a context opened by a network error, and the retry is
\* scheduled all the same.
C27_Witness ==
    /\ Returned("add_retry_attempt")
    /\ "pi_1" \in DOMAIN retry_contexts
    /\ LET c == retry_contexts["pi_1"]
       IN  /\ c.original_failure_reason = "network_error"
           /\ c.attempts[Len(c.attempts)].failure_reason = "card_declined"
           /\ c.next_retry_at # None
           /\ c.created_at < now

\* ------------------------------------ concurrent requests: claims
\* The threads that went through incr, and those whose request was allowed.
Counted == {t \in Threads : threads[t].current_count > 0}
Allowed == {t \in Threads : threads[t].is_allowed = Some(TRUE)}

\* C10: when the concurrent calls of one window have all returned, no
\* increment is lost (the window counter stands at its start value plus one
\* for every call that incremented it: at n for n calls on a fresh counter)
\* and no more calls were allowed than the ceiling had left.
C10_NoLostIncrement ==
    (\A t \in Threads : threads[t].pc = "done") =>
        /\ int(store[count_key(route, ClientExternal)].value)
               = count0 + Cardinality(Counted)
        /\ Cardinality(Allowed) <= Max(0, Config(route).requests - count0)

\* ----------------------------- concurrent gateway reports: claims
\* The calls that recorded an attempt: every failure report, and a success
\* report that found a context.
RecordedCalls == {t \in Threads : handlers[t].recorded}

\* C11: when the concurrent reports for one payment intent have all
\* returned, the attempts of its retry context are strictly ordered by
\* attempt number, no reported attempt is lost (the context holds one attempt
\* for each call that recorded one, and the one it was opened with), and
\* current_attempts is the number of attempts.
C11_AttemptsOrdered ==
    ((\A t \in Threads : handlers[t].pc = "done") /\ "pi_1" \in DOMAIN retry_index) =>
        LET c == heap[retry_index["pi_1"]]
            n == Len(c.attempts)
        IN  /\ \A i, j \in 1..n :
                  i < j => c.attempts[i].attempt_number < c.attempts[j].attempt_number
            /\ n = Cardinality(RecordedCalls) + (IF 0 \in DOMAIN heap THEN 1 ELSE 0)
            /\ c.current_attempts = n

\* ------------------------------------------- the pure methods: claims
\* The last call was one of fn.
Called(fn) == call # None /\ Val(call).fn = fn

\* C15: should_retry_payment(category, attempts_so_far) is true exactly when
\* the category's strategy is neither no_retry nor user_action and
\* attempts_so_far is below the category's max_attempts, for every category
\* and every attempt count from 0 on.
C15_ShouldRetryRule ==
    Called("should_retry_payment") =>
        LET c == Val(call)
            config == retry_configs[c.failure_reason]
        IN  c.value <=> (/\ config.strategy # "no_retry"
                         /\ config.strategy # "user_action"
                         /\ c.current_attempts < config.max_attempts)

\* C15 witness: the decision at the boundary of a retryable category was
\* asked for: network_error with five attempts made, answered no.
C15_Witness ==
    /\ Called("should_retry_payment")
    /\ Val(call).failure_reason = "network_error"
    /\ Val(call).current_attempts = 5
    /\ ~Val(call).value

\* C16: calculate_retry_delay depends on the strategy and the attempt number
\* only: immediate gives 0, linear attempt_number * 60, exponential
\* 2^(attempt_number - 1) * 60, so that the exponential delays of attempts
\* 1..4 are 60, 120, 240 and 480 seconds.
C16_DelayFormula ==
    Called("calculate_retry_delay") =>
        LET c == Val(call)
            n == c.attempt_number
        IN  /\ c.strategy = "immediate" => c.value = 0
            /\ c.strategy = "linear" => c.value = n * 60
            /\ c.strategy = "exponential" => c.value = (2 ^ (n - 1)) * 60
            /\ (c.strategy = "exponential" /\ n \in 1..4) =>
                    c.value = <<60, 120, 240, 480>>[n]

\* C16 witness: the exponential delay of attempt 4 was computed: 480 seconds.
C16_Witness ==
    /\ Called("calculate_retry_delay")
    /\ Val(call).strategy = "exponential"
    /\ Val(call).attempt_number = 4
    /\ Val(call).value = 480

\* The attribute of an error descriptor as the claims speak of it: its value,
\* or None when the descriptor is absent or has no such attribute.
Attribute(stripe_error, name) ==
    IF stripe_error = None THEN None
    ELSE IF name \in DOMAIN Val(stripe_error) THEN Some(Val(stripe_error)[name])
    ELSE None

\* The descriptor with one attribute set to v, or taken away when v is None.
WithAttribute(stripe_error, name, v) ==
    LET e == Val(stripe_error)
        names == IF v = None THEN (DOMAIN e) \ {name} ELSE (DOMAIN e) \cup {name}
    IN  Some([a \in names |-> IF a = name THEN Val(v) ELSE e[a]])

DeclinedCodes == {Some("card_declined"), Some("generic_decline")}
MatchingCodes ==
    DeclinedCodes \cup {Some("authentication_required"), Some("processing_error")}
MatchingTypes ==
    {Some("rate_limit_error"), Some("api_connection_error"), Some("api_error")}

\* C17: classify_failure_reason is total: for every error descriptor, an
\* absent one and one without code, type and decline_code or with values it
\* does not know included, it returns one of the nine categories of
\* PaymentFailureReason; a descriptor that matches no rule gives unknown.
C17_ClassifierTotal ==
    Called("classify_failure_reason") =>
        LET c == Val(call)
        IN  /\ c.value \in PaymentFailureReason
            /\ Cardinality(PaymentFailureReason) = 9
            /\ (/\ Attribute(c.stripe_error, "code") \notin MatchingCodes
                /\ Attribute(c.stripe_error, "type") \notin MatchingTypes)
                    => c.value = "unknown"

\* C17 witness: a descriptor with an unknown code, an unknown type and no
\* decline_code was classified.
C17_Witness ==
    /\ Called("classify_failure_reason")
    /\ Val(call).stripe_error = Some([code |-> "bogus", type |-> "bogus"])
    /\ Val(call).value = "unknown"

\* C18: inside the declined branch (code card_declined or generic_decline)
\* the decline_code decides: insufficient_funds, expired_card, incorrect_cvc
\* (for incorrect_cvc and invalid_cvc), and card_declined for any other or
\* missing one; with any other code the decline_code has no influence on the
\* result; and a code that matches a rule wins over the error type.
C18_DeclinePrecedence ==
    (Called("classify_failure_reason") /\ Val(call).stripe_error # None) =>
        LET c == Val(call)
            e == c.stripe_error
            code == Attribute(e, "code")
            decline_code == Attribute(e, "decline_code")
        IN  /\ code \in DeclinedCodes =>
                c.value =
                    CASE decline_code = Some("insufficient_funds") -> "insufficient_funds"
                      [] decline_code = Some("expired_card") -> "expired_card"
                      [] decline_code \in {Some("incorrect_cvc"), Some("invalid_cvc")}
                            -> "incorrect_cvc"
                      [] OTHER -> "card_declined"
            /\ code \notin DeclinedCodes =>
                \A d \in DeclineCodes :
                    classify_failure_reason(WithAttribute(e, "decline_code", d)) = c.value
            /\ code \in MatchingCodes =>
                \A t \in ErrorTypes :
                    classify_failure_reason(WithAttribute(e, "type", t)) = c.value
            /\ code = Some("authentication_required") => c.value = "authentication_required"
            /\ code = Some("processing_error") => c.value = "processing_error"

\* C18 witness: a declined card with decline_code insufficient_funds and the
\* error type rate_limit_error was classified as insufficient_funds.
C18_Witness ==
    /\ Called("classify_failure_reason")
    /\ Val(call).stripe_error = Some([code |-> "card_declined",
                                      type |-> "rate_limit_error",
                                      decline_code |-> "insufficient_funds"])
    /\ Val(call).value = "insufficient_funds"


\* ------------------------------------------------ payment routes: claims
\* The last step was a request to route f, and its function was called.
Handled(f) == request # None /\ Val(request).route = f /\ invoked = 1

\* C21: on a decorated route, when check_rate_limit returns not allowed the
\* response has status 429 and the route's function is not called (orders,
\* gateway and session stay as they are); when it returns allowed the
\* function is called exactly once.
C21_LimiterBeforeHandler ==
    [][response' # None =>
          /\ ~Val(result').is_allowed =>
                /\ Val(response').status_code = 429
                /\ invoked' = 0
                /\ orders' = orders
                /\ stripe_intents' = stripe_intents
                /\ session' = session
          /\ Val(result').is_allowed => invoked' = 1]_vars

\* C21 witness: a confirmation of a payment that succeeded at the gateway
\* was answered with 429 by the limiter, and the order is not paid.
C21_Witness ==
    /\ request # None
    /\ Val(request).route = "confirm_payment"
    /\ Val(request).data # None
    /\ dict_get(Val(Val(request).data), "payment_intent_id") = Some("pi_1")
    /\ Val(request).gateway_ok
    /\ Val(response).status_code = 429
    /\ ~Val(result).is_allowed
    /\ invoked = 0
    /\ "pi_1" \in DOMAIN stripe_intents
    /\ stripe_intents["pi_1"] = "succeeded"
    /\ orders[1].stripe_payment_intent = Some("pi_1")
    /\ orders[1].status = "payment_pending"

\* C22: a create-intent request that reaches the route's function leaves
\* every paid order paid and with the payment intent it had; when it names
\* a paid order the response is an error, with status 400 when the visitor
\* may use the order.
C22_PaidOrderRejected ==
    [][(/\ request' # None
        /\ Val(request').route = "create_intent"
        /\ invoked' = 1) =>
          \A o \in DOMAIN orders :
              orders[o].status = "paid" =>
                  /\ orders'[o].status = "paid"
                  /\ orders'[o].stripe_payment_intent = orders[o].stripe_payment_intent
                  /\ (/\ Val(request').data # None
                      /\ dict_get(Val(Val(request').data), "order_id") = Some(o)) =>
                        /\ Val(response').status_code >= 400
                        /\ (session.user_id = None
                                \/ session.user_id = Some(orders[o].user_id)) =>
                              Val(response').status_code = 400]_vars

\* C23: a confirm request that reaches the route's function is answered
\* with success (200) only when the gateway reports the payment intent as
\* succeeded, and then its order is paid; when the gateway reports another
\* status for the intent, the response has status 400 and the intent's
\* order is left payment_failed.
C23_ConfirmOnlyWhenSucceeded ==
    [][(/\ request' # None
        /\ Val(request').route = "confirm_payment"
        /\ invoked' = 1
        /\ Val(request').data # None
        /\ "payment_intent_id" \in DOMAIN Val(Val(request').data)) =>
          LET p == Val(Val(request').data).payment_intent_id
              of_intent == {o \in DOMAIN orders :
                               orders[o].stripe_payment_intent = Some(p)}
          IN  /\ Val(response').status_code = 200 =>
                    /\ p \in DOMAIN stripe_intents
                    /\ stripe_intents[p] = "succeeded"
                    /\ of_intent # {}
                    /\ \A o \in of_intent : orders'[o].status = "paid"
              /\ (/\ p \in DOMAIN stripe_intents
                  /\ Val(request').gateway_ok
                  /\ stripe_intents[p] # "succeeded") =>
                    /\ Val(response').status_code = 400
                    /\ \A o \in of_intent : orders'[o].status = "payment_failed"]_vars

=============================================================================
